---- MODULE Spec2Model ----
(***************************************************************************)
(* Model of src/app.py: the two-species ODE vector field `model`, the      *)
(* label helper `format_number`, and the script that integrates the        *)
(* time series and the phase-plane trajectories with solve_ivp.            *)
(*                                                                         *)
(* Real numbers are exact rationals <<n, d>> in lowest terms with d > 0.   *)
(* Text is a sequence of one-character strings.                            *)
(* A Python number handed to format_number is [ty |-> "int" | "float",     *)
(* v |-> its (integral) value]: every number the script formats is         *)
(* integral (0, k, k/m = 160000.0, the candidate initial conditions).      *)
(* solve_ivp is a library call: its result is modelled by what it was      *)
(* asked to integrate and by how many grid points it reached.              *)
(***************************************************************************)
EXTENDS Integers, Sequences, FiniteSets, TLC

VARIABLES
    pc,               \* position of the script
    C, s0, r0,        \* lines 53-55: the number inputs
    y0, t_eval,       \* lines 59-60
    solution,         \* lines 61 and 104: the last solve_ivp result
    t, s, r,          \* lines 64-65 and 105
    fig,              \* lines 67-76: the time-series figure
    init_cond,        \* line 86: the selected initial conditions
    fig_phase_plane,  \* lines 94-113: the phase-plane figure
    idx,              \* loop position of `for elt in init_cond`
    calls,            \* every solve_ivp invocation so far, in order
    shown,            \* lines 118 and 120: the figures handed to the page
    call              \* the last direct call of model / format_number

vars == <<pc, C, s0, r0, y0, t_eval, solution, t, s, r, fig, init_cond,
          fig_phase_plane, idx, calls, shown, call>>

scriptVars == <<pc, C, s0, r0, y0, t_eval, solution, t, s, r, fig, init_cond,
                fig_phase_plane, idx, calls, shown>>

None == [none |-> TRUE]
NoCall == [fn |-> "none"]

----------------------------------------------------------------------------
(* Bounds of the model *)

\* most initial conditions selected for one phase-plane analysis
MaxConds == 2

\* format_number is applied to every integer from -MaxFmt to MaxFmt
MaxFmt == 2200

----------------------------------------------------------------------------
(* Exact rational arithmetic *)

Abs(x) == IF x < 0 THEN -x ELSE x

RECURSIVE GCD(_, _)
GCD(a, b) == IF b = 0 THEN a ELSE GCD(b, a % b)

Rat(n, d) ==
    LET g == GCD(Abs(n), Abs(d))
        sg == IF d < 0 THEN -1 ELSE 1
    IN  <<sg * (n \div g), sg * (d \div g)>>

Zero == <<0, 1>>
One == <<1, 1>>
RInt(n) == <<n, 1>>

\* sums over the least common denominator
RAdd(a, b) ==
    LET g == GCD(a[2], b[2])
    IN  Rat(a[1] * (b[2] \div g) + b[1] * (a[2] \div g), a[2] * (b[2] \div g))
RNeg(a) == <<-a[1], a[2]>>
RSub(a, b) == RAdd(a, RNeg(b))
RMul(a, b) == Rat(a[1] * b[1], a[2] * b[2])
\* b is nonzero
RDiv(a, b) == Rat(a[1] * b[2], a[2] * b[1])
RLess(a, b) == a[1] * b[2] < b[1] * a[2]

----------------------------------------------------------------------------
(* The vector field, src/app.py lines 7-11 *)

\* A call either returns a value or raises.
Return(v) == [kind |-> "return", value |-> v]
Raise(e) == [kind |-> "raise", value |-> e]

\* inf or nan, written as a quotient with denominator 0: what numpy yields for
\* `x / 0` (with a RuntimeWarning only) and for every later arithmetic step on it
NonFinite == <<0, 0>>

\* y_ is [arr |-> whether y is a numpy array (as solve_ivp passes it) or a
\* plain list, s |-> y[0], r |-> y[1]]; t_ is accepted and not read. With
\* K = 0 the first division fails: Python numbers raise, numpy numbers do not.
model_clamped(t_, y_, rho_, K_, m_, alpha_, C_, beta_) ==
    LET s_ == IF RLess(y_.s, Zero) THEN Zero ELSE y_.s
        r_ == IF RLess(y_.r, Zero) THEN Zero ELSE y_.r
        g_ == RMul(rho_, RSub(One, RDiv(RAdd(s_, RMul(m_, r_)), K_)))
    IN  IF K_ = Zero
        THEN IF y_.arr
             THEN Return(<<NonFinite, NonFinite>>)
             ELSE Raise("ZeroDivisionError")
        ELSE Return(<<RSub(RMul(g_, s_), RMul(RMul(alpha_, C_), s_)),
                      RSub(RMul(g_, r_), RMul(RDiv(RMul(beta_, s_), K_), r_))>>)

model(t_, y_, rho_, K_, m_, alpha_, C_, beta_) ==
    LET s_ == y_.s
        r_ == y_.r
    IN  IF K_ = Zero
        THEN IF y_.arr
             THEN Return(<<NonFinite, NonFinite>>)
             ELSE Raise("ZeroDivisionError")
        ELSE LET ds_dt == RSub(RMul(RMul(rho_,
                                         RSub(One, RDiv(RAdd(s_, RMul(m_, r_)), K_))),
                                    s_),
                               RMul(RMul(alpha_, C_), s_))
                 dr_dt == RSub(RMul(RMul(rho_,
                                         RSub(One, RDiv(RAdd(s_, RMul(m_, r_)), K_))),
                                    r_),
                               RMul(RDiv(RMul(beta_, s_), K_), r_))
             IN  Return(<<ds_dt, dr_dt>>)

\* line 97: [(0, k/m), (k, 0), (0, 0)] as a function of k and m (m nonzero)
equilibrium_points(K_, m_) == << <<Zero, RDiv(K_, m_)>>, <<K_, Zero>>, <<Zero, Zero>> >>

----------------------------------------------------------------------------
(* format_number, src/app.py lines 89-92 *)

PyInt(v) == [ty |-> "int", v |-> v]
PyFloat(v) == [ty |-> "float", v |-> v]

DigitChar(d) == <<"0", "1", "2", "3", "4", "5", "6", "7", "8", "9">>[d + 1]

\* decimal digits of a natural number
RECURSIVE NatText(_)
NatText(n) == IF n < 10 THEN <<DigitChar(n)>>
              ELSE NatText(n \div 10) \o <<DigitChar(n % 10)>>

\* str(num): "-5", "999" for an int, "-5.0", "999.0" for an integral float
str(num) ==
    (IF num.v < 0 THEN <<"-">> ELSE <<>>) \o NatText(Abs(num.v))
        \o (IF num.ty = "float" THEN <<".", "0">> ELSE <<>>)

RECURSIVE BitLen(_)
BitLen(n) == IF n = 0 THEN 0 ELSE 1 + BitLen(n \div 2)

\* (f * 2^n) mod 20
RECURSIVE Shift20(_, _)
Shift20(f, n) == IF n = 0 THEN f % 20 ELSE Shift20((2 * f) % 20, n - 1)

\* v >= 1000 with v % 100 = 50: v/1000 lies midway between two tenths. The
\* float v/1000 is the nearest binary64 number to it: the midpoint itself when
\* v % 1000 is 250 or 750, and otherwise above or below it according to the
\* part of I + f/20 (I = v div 1000, f = (v % 1000) / 50) cut off after 53
\* significant bits.
QuotientAboveTie(v) ==
    Shift20((v % 1000) \div 50, 53 - BitLen(v \div 1000)) > 10

\* tenths in the text of f"{v/1000:.1f}": the float quotient rounded to the
\* nearest tenth, an exact midpoint going to the even tenth
TenthsOfThousand(v) ==
    LET base == v \div 100
        rem == v % 100
    IN  IF rem < 50 THEN base
        ELSE IF rem > 50 THEN base + 1
        ELSE IF v % 1000 \in {250, 750}
             THEN (IF base % 2 = 0 THEN base ELSE base + 1)
        ELSE IF QuotientAboveTie(v) THEN base + 1 ELSE base

\* f"{x:.1f}" for a quotient of `tenths` tenths (non-negative)
FixedOne(tenths) == NatText(tenths \div 10) \o <<".", DigitChar(tenths % 10)>>

format_number_gt(num) ==
    IF num.v > 1000
    THEN FixedOne(TenthsOfThousand(num.v)) \o <<"k">>
    ELSE str(num)

format_number(num) ==
    IF num.v >= 1000
    THEN FixedOne(TenthsOfThousand(num.v)) \o <<"k">>
    ELSE str(num)

----------------------------------------------------------------------------
(* The script's fixed parameters, src/app.py lines 46-51, 58-60 *)

rho_s == Rat(31, 1000)
rho_r == Rat(26, 1000)
k == 4800000
m == 30
alpha == Rat(6, 100)
\* k*6.25*10**(-7)
beta == RMul(RInt(k), Rat(625, 1000000000))
t_span == <<0, 700>>
\* the point count of np.linspace on line 60
N_EVAL == 500

\* np.linspace(start, stop, num): start + i*step, step = (stop - start)/(num - 1)
linspace(start, stop, num) ==
    [i \in 1..num |->
        RAdd(RInt(start), RMul(RInt(i - 1), RDiv(RInt(stop - start), RInt(num - 1))))]

\* lines 79-85; 0.1*10**6, 1.4*10**5 and k/m-100 are floats
default_init_cond ==
    << <<PyInt(1000000), PyInt(100000)>>,
       <<PyFloat(100000), PyFloat(140000)>>,
       <<PyInt(40000), PyFloat((k \div m) - 100)>>,
       <<PyInt(1100000), PyInt(50000)>>,
       <<PyInt(1700000), PyInt(20000)>> >>

----------------------------------------------------------------------------
(* solve_ivp, as the script uses it (lines 61 and 104) *)

\* The values a solver call is asked for: the solution of y' = fun(t, y, *args),
\* y(t_span[0]) = y0, component comp, at the first `len` points of t_eval.
Row(fun_, y0_, args_, comp, len) ==
    [fun |-> fun_, y0 |-> y0_, args |-> args_, comp |-> comp, len |-> len]

\* `reached` is the number of points of t_eval the adaptive solver got past:
\* all of them (status 0), or fewer when a step fails (status -1, the result
\* holding the points reached so far; t and y are empty lists when the very
\* first step fails).
solve_ivp(fun_, t_span_, y0_, t_eval_, args_, reached) ==
    [status |-> IF reached = Len(t_eval_) THEN 0 ELSE -1,
     success |-> reached = Len(t_eval_),
     t |-> SubSeq(t_eval_, 1, reached),
     y |-> IF reached = 0 THEN <<>>
           ELSE <<Row(fun_, y0_, args_, 1, reached), Row(fun_, y0_, args_, 2, reached)>>]

\* success, or a failed step: the first one, one after the first grid point,
\* one just before the last grid point
ReachedCounts == {0, 1, N_EVAL - 1, N_EVAL}

Invocation(fun_, t_span_, y0_, t_eval_, args_) ==
    [fun |-> fun_, t_span |-> t_span_, y0 |-> y0_, t_eval |-> t_eval_, args |-> args_]

\* args=(rho_s, k, m, alpha, C, beta) on line 61
SeriesArgs(C_) == <<rho_s, RInt(k), RInt(m), alpha, C_, beta>>

LoopArgs_rho_r(C_) == <<rho_r, RInt(k), RInt(m), alpha, C_, beta>>

\* args=(rho_s, k, m, alpha, C, beta) on line 104
LoopArgs(C_) == <<rho_s, RInt(k), RInt(m), alpha, C_, beta>>

----------------------------------------------------------------------------
(* Figures *)

\* go.Scatter(x=..., y=..., mode='lines', name=...)
Scatter(x_, y_, name_) == [x |-> x_, y |-> y_, mode |-> "lines", name |-> name_]

\* lines 68-69
SeriesTraces(t_, s_, r_) == <<Scatter(t_, s_, <<"S">>), Scatter(t_, r_, <<"R">>)>>

TraceName_S0_twice(S0_, R0_) ==
    <<"S", "0", "=">> \o format_number(S0_) \o <<",", " ", "R", "0", "=">>
        \o format_number(S0_)

\* line 106: f"S0={format_number(S0)}, R0={format_number(R0)}"
TraceName(S0_, R0_) ==
    <<"S", "0", "=">> \o format_number(S0_) \o <<",", " ", "R", "0", "=">>
        \o format_number(R0_)

\* line 99: f"({format_number(point[0])},{format_number(point[1])})"
AnnotationText(p0, p1) ==
    <<"(">> \o format_number(p0) \o <<",">> \o format_number(p1) \o <<")">>

\* lines 97-99, with the Python types of (0, k/m), (k, 0), (0, 0)
Annotations ==
    << [x |-> 0, y |-> k \div m, text |-> AnnotationText(PyInt(0), PyFloat(k \div m))],
       [x |-> k, y |-> 0, text |-> AnnotationText(PyInt(k), PyInt(0))],
       [x |-> 0, y |-> 0, text |-> AnnotationText(PyInt(0), PyInt(0))] >>

AddTrace_to_fig(fig_, fig_phase_plane_, trace) ==
    <<[fig_ EXCEPT !.data = Append(@, trace)], fig_phase_plane_>>

\* line 106: fig_phase_plane.add_trace(...); the pair is (fig, fig_phase_plane)
AddTrace(fig_, fig_phase_plane_, trace) ==
    <<fig_, [fig_phase_plane_ EXCEPT !.data = Append(@, trace)]>>

----------------------------------------------------------------------------
(* The script, top to bottom *)

\* line 53: 0.0 <= C <= 5.0; lines 54-55: s0, r0 >= 5000.0
CSamples == {Zero, Rat(9, 10)}
S0Samples == {5000, 1000000}
R0Samples == {5000}

Range(f) == {f[i] : i \in DOMAIN f}

IndexSeqs == UNION {[1..n -> DOMAIN default_init_cond] : n \in 0..MaxConds}

\* st.multiselect hands over the options picked, each at most once, in the
\* order they were picked
Selections ==
    {[i \in DOMAIN ix |-> default_init_cond[ix[i]]] :
        ix \in {jx \in IndexSeqs : Cardinality(Range(jx)) = Len(jx)}}

\* an analysis requested with any list of candidates, repeats included
Requests == {[i \in DOMAIN ix |-> default_init_cond[ix[i]]] : ix \in IndexSeqs}

Init ==
    /\ pc = "inputs"
    /\ C = None /\ s0 = None /\ r0 = None
    /\ y0 = None /\ t_eval = None
    /\ solution = None
    /\ t = None /\ s = None /\ r = None
    /\ fig = None
    /\ init_cond = <<>>
    /\ fig_phase_plane = None
    /\ idx = 0
    /\ calls = <<>>
    /\ shown = None
    /\ call = NoCall

\* lines 53-55
ReadInputs ==
    /\ pc = "inputs"
    /\ \E C_ \in CSamples, s0_ \in S0Samples, r0_ \in R0Samples :
         /\ C' = C_
         /\ s0' = s0_
         /\ r0' = r0_
    /\ pc' = "solve"
    /\ UNCHANGED <<y0, t_eval, solution, t, s, r, fig, init_cond, fig_phase_plane,
                   idx, calls, shown, call>>

\* lines 58-61
SolveSeries ==
    /\ pc = "solve"
    /\ \E reached \in ReachedCounts :
         LET y0_ == <<s0, r0>>
             t_eval_ == linspace(t_span[1], t_span[2], N_EVAL)
         IN  /\ y0' = y0_
             /\ t_eval' = t_eval_
             /\ solution' = solve_ivp("model", t_span, y0_, t_eval_, SeriesArgs(C), reached)
             /\ calls' = Append(calls, Invocation("model", t_span, y0_, t_eval_, SeriesArgs(C)))
    /\ pc' = "extract"
    /\ UNCHANGED <<C, s0, r0, t, s, r, fig, init_cond, fig_phase_plane, idx, shown, call>>

\* lines 64-65; unpacking an empty solution.y raises ValueError and the run ends
Extract ==
    /\ pc = "extract"
    /\ t' = solution.t
    /\ IF Len(solution.y) = 2
       THEN /\ s' = solution.y[1]
            /\ r' = solution.y[2]
            /\ pc' = "plot"
       ELSE /\ UNCHANGED <<s, r>>
            /\ pc' = "ValueError"
    /\ UNCHANGED <<C, s0, r0, y0, t_eval, solution, fig, init_cond, fig_phase_plane,
                   idx, calls, shown, call>>

\* lines 67-76
BuildFig ==
    /\ pc = "plot"
    /\ fig' = [data |-> SeriesTraces(t, s, r), title |-> "Cells Population Dynamics"]
    /\ pc' = "select"
    /\ UNCHANGED <<C, s0, r0, y0, t_eval, solution, t, s, r, init_cond, fig_phase_plane,
                   idx, calls, shown, call>>

\* line 86
Select ==
    /\ pc = "select"
    /\ init_cond' \in Selections
    /\ pc' = "annotate"
    /\ UNCHANGED <<C, s0, r0, y0, t_eval, solution, t, s, r, fig, fig_phase_plane,
                   idx, calls, shown, call>>

\* the phase-plane analysis asked for a list of initial conditions that need
\* not be distinct
Request ==
    /\ pc = "select"
    /\ init_cond' \in Requests
    /\ pc' = "annotate"
    /\ UNCHANGED <<C, s0, r0, y0, t_eval, solution, t, s, r, fig, fig_phase_plane,
                   idx, calls, shown, call>>

\* lines 94-99
Annotate ==
    /\ pc = "annotate"
    /\ fig_phase_plane' = [annotations |-> Annotations, data |-> <<>>, title |-> <<>>]
    /\ idx' = 1
    /\ pc' = "loop"
    /\ UNCHANGED <<C, s0, r0, y0, t_eval, solution, t, s, r, fig, init_cond, calls,
                   shown, call>>

\* lines 102-106, one iteration; unpacking an empty solution.y on line 105
\* raises ValueError and the run ends
LoopIteration ==
    /\ pc = "loop"
    /\ idx <= Len(init_cond)
    /\ \E reached \in ReachedCounts :
         LET elt == init_cond[idx]
             S0 == elt[1]
             R0 == elt[2]
             sol == solve_ivp("model", t_span, <<S0.v, R0.v>>, t_eval, LoopArgs(C), reached)
             figs == AddTrace(fig, fig_phase_plane,
                              Scatter(sol.y[1], sol.y[2], TraceName(S0, R0)))
         IN  /\ solution' = sol
             /\ calls' = Append(calls, Invocation("model", t_span, <<S0.v, R0.v>>, t_eval,
                                                  LoopArgs(C)))
             /\ IF Len(sol.y) = 2
                THEN /\ s' = sol.y[1]
                     /\ r' = sol.y[2]
                     /\ fig' = figs[1]
                     /\ fig_phase_plane' = figs[2]
                     /\ idx' = idx + 1
                     /\ pc' = pc
                ELSE /\ UNCHANGED <<s, r, fig, fig_phase_plane, idx>>
                     /\ pc' = "ValueError"
    /\ UNCHANGED <<C, s0, r0, y0, t_eval, t, init_cond, shown, call>>

\* lines 108-113
Layout ==
    /\ pc = "loop"
    /\ idx > Len(init_cond)
    /\ fig_phase_plane' = [fig_phase_plane EXCEPT !.title = <<"Phase Plane Analysis", C>>]
    /\ pc' = "display"
    /\ UNCHANGED <<C, s0, r0, y0, t_eval, solution, t, s, r, fig, init_cond, idx, calls,
                   shown, call>>

\* lines 116-120
Display ==
    /\ pc = "display"
    /\ shown' = [col1 |-> fig, col2 |-> fig_phase_plane]
    /\ pc' = "done"
    /\ UNCHANGED <<C, s0, r0, y0, t_eval, solution, t, s, r, fig, init_cond,
                   fig_phase_plane, idx, calls, call>>

Next ==
    \/ ReadInputs
    \/ SolveSeries
    \/ Extract
    \/ BuildFig
    \/ Select
    \/ Annotate
    \/ LoopIteration
    \/ Layout
    \/ Display

\* one run of the script
Spec == Init /\ [][Next]_vars

NextAnalyze ==
    \/ ReadInputs
    \/ SolveSeries
    \/ Extract
    \/ BuildFig
    \/ Request
    \/ Annotate
    \/ LoopIteration
    \/ Layout
    \/ Display

\* one run of the script with the analysis fed any list of initial conditions
SpecAnalyze == Init /\ [][NextAnalyze]_vars

----------------------------------------------------------------------------
(* Direct calls of the two functions *)

TSamples == {0, 700}
RhoSamples == {Rat(1, 2), rho_s}
KSamples == {Zero, One, RInt(60)}
MSamples == {One, RInt(m)}
AlphaSamples == {Zero, alpha}
BetaSamples == {Zero, RInt(3)}
SSamples == {RInt(-1), Zero, Rat(3, 2)}
RSamples == {RInt(-1), Zero, RInt(2)}

\* the script's parameters, lines 46-53
ScriptParams == {<<rho_s, RInt(k), RInt(m), alpha, C_, beta>> : C_ \in CSamples}

ParamSets ==
    (RhoSamples \X KSamples \X MSamples \X AlphaSamples \X CSamples \X BetaSamples)
        \cup ScriptParams

\* states the field is called on: a grid of small states (negative ones too)
\* for the small parameter sets, and the points of line 97 for every set
StatesFor(p) ==
    (IF p \in ScriptParams THEN {} ELSE SSamples \X RSamples)
        \cup Range(equilibrium_points(p[2], p[3]))

\* one call per run: the functions keep no state between calls
CallModel ==
    /\ call = NoCall
    /\ \E p \in ParamSets, t_ \in TSamples, arr \in BOOLEAN :
         \E y_ \in StatesFor(p) :
            call' = [fn |-> "model", t |-> t_,
                     y |-> [arr |-> arr, s |-> y_[1], r |-> y_[2]],
                     rho |-> p[1], K |-> p[2], m |-> p[3], alpha |-> p[4],
                     C |-> p[5], beta |-> p[6],
                     out |-> model(t_, [arr |-> arr, s |-> y_[1], r |-> y_[2]],
                                   p[1], p[2], p[3], p[4], p[5], p[6])]
    /\ UNCHANGED scriptVars

\* the integers up to MaxFmt either side of 0, the numbers the script formats,
\* and larger numbers midway between two tenths of a thousand
FmtValues ==
    (-MaxFmt .. MaxFmt)
        \cup {k, k \div m, 159900, 1000000, 100000, 140000, 40000, 1100000, 50000,
              1700000, 20000}
        \cup {9950, 99950, 99949, 99951, 160050, 4800250, 4800350}

CallFormat ==
    /\ call = NoCall
    /\ \E v \in FmtValues, ty \in {"int", "float"} :
         call' = [fn |-> "format_number", num |-> [ty |-> ty, v |-> v],
                  out |-> format_number([ty |-> ty, v |-> v])]
    /\ UNCHANGED scriptVars

NextFn ==
    \/ CallModel
    \/ CallFormat

\* the two functions called on their own
SpecFn == Init /\ [][NextFn]_vars

----------------------------------------------------------------------------
(* Claims about the direct calls, checked under SpecFn *)

CalledModel == call.fn = "model"
CalledFormat == call.fn = "format_number"

\* C1: for every parameter set with K > 0 the field returns (0, 0) at each of
\* the three listed equilibrium points (0, K/m), (K, 0), (0, 0).
C1_ListedEquilibriaHaveZeroDerivative ==
    (/\ CalledModel
     /\ RLess(Zero, call.K)
     /\ <<call.y.s, call.y.r>> \in Range(equilibrium_points(call.K, call.m)))
        => call.out = Return(<<Zero, Zero>>)

\* C2: a call with K = 0 is rejected with InvalidParameter; no derivative is
\* evaluated and no non-finite value is handed back.
C2_ZeroKIsRejected ==
    (CalledModel /\ call.K = Zero) => call.out = Raise("InvalidParameter")

DigitVal(c) == CHOOSE d \in 0..9 : DigitChar(d) = c
IsDigits(txt) == Len(txt) > 0 /\ \A i \in DOMAIN txt : \E d \in 0..9 : txt[i] = DigitChar(d)

RECURSIVE NatOf(_)
NatOf(txt) == IF Len(txt) = 0 THEN 0
              ELSE 10 * NatOf(SubSeq(txt, 1, Len(txt) - 1)) + DigitVal(txt[Len(txt)])

\* the text is <digits>.<digit>k, and the number it reads as, in tenths
IsThousandsText(txt) ==
    /\ Len(txt) >= 4
    /\ txt[Len(txt)] = "k"
    /\ txt[Len(txt) - 2] = "."
    /\ IsDigits(SubSeq(txt, 1, Len(txt) - 3))
    /\ IsDigits(<<txt[Len(txt) - 1]>>)
TenthsRead(txt) == 10 * NatOf(SubSeq(txt, 1, Len(txt) - 3)) + DigitVal(txt[Len(txt) - 1])

\* the text is the plain decimal text of the (integral) number num
IsPlainTextOf(txt, num) ==
    LET unsigned == IF num.v < 0 THEN Tail(txt) ELSE txt
        whole == IF num.ty = "float" THEN SubSeq(unsigned, 1, Len(unsigned) - 2)
                 ELSE unsigned
    IN  /\ (num.v < 0) => (Len(txt) > 0 /\ txt[1] = "-")
        /\ (num.ty = "float") =>
              (Len(unsigned) > 2 /\ SubSeq(unsigned, Len(unsigned) - 1, Len(unsigned)) = <<".", "0">>)
        /\ IsDigits(whole)
        /\ (Len(whole) > 1 => whole[1] # "0")
        /\ NatOf(whole) = Abs(num.v)

\* C6: format_number(num) is num/1000 to the nearest tenth followed by "k"
\* when num >= 1000, and the plain text of num otherwise (0 and negative
\* numbers included); 999 gives "999", 1000 "1.0k", 4800000 "4800.0k".
C6_FormatNumber ==
    CalledFormat =>
        /\ (call.num.v >= 1000) =>
              /\ IsThousandsText(call.out)
              /\ Abs(100 * TenthsRead(call.out) - call.num.v) <= 50
        /\ (call.num.v < 1000) => IsPlainTextOf(call.out, call.num)
        /\ (call.num = PyInt(999)) => call.out = <<"9", "9", "9">>
        /\ (call.num.v = 1000) => call.out = <<"1", ".", "0", "k">>
        /\ (call.num.v = k) => call.out = <<"4", "8", "0", "0", ".", "0", "k">>

\* a number at the threshold, one midway between two tenths, a negative one
C6_Witness ==
    /\ CalledFormat
    /\ call.num.v \in {1000, 1050, -5}

\* C7: with K nonzero the field returns exactly (g*s - alpha*C*s,
\* g*r - (beta*s/K)*r), g = rho*(1 - (s + m*r)/K), for negative s or r too
\* (nothing is clamped), and the same for every value of t. Stated in
\* factored form:  ds_dt = s * (rho*(K - s - m*r)/K - alpha*C)  and
\* dr_dt = r * (rho*(K - s - m*r) - beta*s)/K.
C7_FieldIsVerbatimAndTimeInvariant ==
    (CalledModel /\ call.K # Zero) =>
        LET s_ == call.y.s
            r_ == call.y.r
            room == RSub(RSub(call.K, s_), RMul(call.m, r_))
        IN  /\ call.out.kind = "return"
            /\ call.out.value[1]
                 = RMul(s_, RSub(RDiv(RMul(call.rho, room), call.K),
                                 RMul(call.alpha, call.C)))
            /\ call.out.value[2]
                 = RMul(r_, RDiv(RSub(RMul(call.rho, room), RMul(call.beta, s_)), call.K))
            /\ \A t2 \in TSamples :
                 model(t2, call.y, call.rho, call.K, call.m, call.alpha, call.C, call.beta)
                    = call.out

\* a state with a negative component whose derivative is not zero
C7_Witness ==
    /\ CalledModel
    /\ call.K # Zero
    /\ RLess(call.y.s, Zero)
    /\ call.out.kind = "return"
    /\ call.out.value[1] # Zero
    /\ call.t = 700

----------------------------------------------------------------------------
(* Claims about the script, checked under Spec (C5 under SpecAnalyze) *)

FigBuilt == fig # None
PhaseStarted == fig_phase_plane # None
Solved == solution # None

\* the uniform grid from 0 to 700 in 500 points: point i is 700*(i-1)/499
Grid == [i \in 1..500 |-> Rat(700 * (i - 1), 499)]

\* the trajectories the plotting code has taken from a solver result
Consumed ==
    (IF s = None THEN {} ELSE {s, r})
        \cup (IF FigBuilt THEN {fig.data[i].y : i \in DOMAIN fig.data} ELSE {})
        \cup (IF PhaseStarted
              THEN {fig_phase_plane.data[i].x : i \in DOMAIN fig_phase_plane.data}
                   \cup {fig_phase_plane.data[i].y : i \in DOMAIN fig_phase_plane.data}
              ELSE {})

\* C3: when the solver stops before the end time, the integration reports an
\* IntegrationFailure; the plotting code never holds a trajectory shorter than
\* the requested grid without the script being in that failure state.
C3_TruncationIsSignalled ==
    \A row \in Consumed : row.len < N_EVAL => pc = "IntegrationFailure"

\* C4: every trajectory an integration returns has as many states as the
\* requested point count (500), at strictly increasing times that are the
\* points of the uniform grid from start to end.
C4_TrajectoryMatchesGrid ==
    Solved =>
        /\ Len(solution.t) = N_EVAL
        /\ Len(solution.y) = 2
        /\ solution.y[1].len = N_EVAL /\ solution.y[2].len = N_EVAL
        /\ \A i \in DOMAIN solution.t : solution.t[i] = Grid[i]
        /\ \A i \in DOMAIN solution.t :
             i > 1 => RLess(solution.t[i - 1], solution.t[i])
        /\ solution.t[1] = RInt(t_span[1])
        /\ solution.t[Len(solution.t)] = RInt(t_span[2])

C8_SameGridAndParameters ==
    /\ \A i \in DOMAIN calls :
         /\ calls[i].fun = "model"
         /\ calls[i].t_span = <<0, 700>>
         /\ calls[i].t_eval = Grid
         /\ calls[i].args = <<Rat(31, 1000), RInt(4800000), RInt(30), Rat(3, 50), C, RInt(3)>>
    /\ Solved => t_eval = Grid

\* two phase-plane integrations after the time-series one
C8_Witness ==
    /\ pc = "done"
    /\ Len(calls) >= 3
    /\ calls[2].y0 # calls[3].y0
    /\ C = Rat(9, 10)

\* the parts of a trace name  S0=<a>, R0=<b>
NameSplit(name) == CHOOSE j \in DOMAIN name : name[j] = ","
NameS0(name) == SubSeq(name, 4, NameSplit(name) - 1)
NameR0(name) == SubSeq(name, NameSplit(name) + 5, Len(name))

\* the label text reads as the number v: exactly below 1000, to the nearest
\* tenth of a thousand from 1000 on
Reads(txt, v) ==
    IF txt[Len(txt)] = "k"
    THEN IsThousandsText(txt) /\ Abs(100 * TenthsRead(txt) - v) <= 50
    ELSE IsDigits(txt) /\ NatOf(txt) = v

\* C9: a phase-plane trajectory's label is made from the initial condition it
\* was integrated from (its S0 part reads as that S0, its R0 part as that R0),
\* and trajectories from distinct initial conditions carry distinct labels.
C9_LabelIdentifiesInitialCondition ==
    PhaseStarted =>
        LET data == fig_phase_plane.data
        IN  /\ \A i \in DOMAIN data :
                 /\ data[i].x.y0 = <<init_cond[i][1].v, init_cond[i][2].v>>
                 /\ data[i].y.y0 = data[i].x.y0
                 /\ data[i].x.comp = 1 /\ data[i].y.comp = 2
                 /\ SubSeq(data[i].name, 1, 3) = <<"S", "0", "=">>
                 /\ Reads(NameS0(data[i].name), data[i].x.y0[1])
                 /\ Reads(NameR0(data[i].name), data[i].x.y0[2])
            /\ \A i, j \in DOMAIN data :
                 data[i].x.y0 # data[j].x.y0 => data[i].name # data[j].name

\* two trajectories from distinct initial conditions have been labelled
C9_Witness ==
    /\ pc = "done"
    /\ Len(fig_phase_plane.data) >= 2
    /\ fig_phase_plane.data[1].x.y0 # fig_phase_plane.data[2].x.y0

\* C10: from the moment the time-series figure is built, its two traces are
\* the S and R components of the trajectory integrated from (s0, r0) over t,
\* whatever the loop has since assigned to solution, s and r; that figure is
\* the one displayed.
C10_TimeSeriesIsFromUserInput ==
    FigBuilt =>
        /\ Len(fig.data) = 2
        /\ \A c \in {1, 2} :
             /\ fig.data[c].x = t
             /\ fig.data[c].y = Row("model", <<s0, r0>>, SeriesArgs(C), c, Len(t))
        /\ fig.data[1].name = <<"S">>
        /\ fig.data[2].name = <<"R">>
        /\ (pc = "done" => shown.col1 = fig)

\* the loop has reassigned s and r to another trajectory, and the figures are shown
C10_Witness ==
    /\ pc = "done"
    /\ Len(init_cond) >= 2
    /\ s # fig.data[1].y
    /\ r # fig.data[2].y
    /\ solution.y[1].y0 # <<s0, r0>>

====
